---- MODULE Spec2Model ----
(***************************************************************************)
(* Model of django_deep_translator's `translate_messages` management       *)
(* command (management/commands/translate_messages.py): the sliding-window *)
(* rate limiter (wait_for_rate_limit), the walk over LOCALE_PATHS (handle) *)
(* and the per-catalog translation loop (translate_file).                  *)
(*                                                                         *)
(* Time is counted in whole seconds.  A catalog is a sequence of entries,  *)
(* an entry a record of msgid (sequence of characters), msgstr, flags (a   *)
(* list, as in polib) and the obsolete marker.                             *)
(***************************************************************************)
EXTENDS Integers, Sequences, FiniteSets, TLC

VARIABLES
    \* settings (django.conf.settings)
    USE_I18N, LOCALE_PATHS,
    \* options of the current invocation (set_options)
    locale, skip_translated, set_fuzzy, source_language,
    limit_translations, requests_per_10s,
    \* state of the Command object
    translated_count, request_times,
    \* the environment: wall clock and the catalogs on disk
    now, disk,
    \* position of the single thread of control
    pc, dirIdx, fileIdx, entryIdx, po,
    \* history of the run (observation only)
    run, disk0, acquired, called, succeeded, failed, saveFailed,
    loaded, saved, nAcquire, nCall, nSave, nLoad, admitted, lastCall,
    prevOk, prevDisk

vars == <<USE_I18N, LOCALE_PATHS, locale, skip_translated, set_fuzzy,
          source_language, limit_translations, requests_per_10s,
          translated_count, request_times, now, disk, pc, dirIdx, fileIdx,
          entryIdx, po, run, disk0, acquired, called, succeeded, failed,
          saveFailed, loaded, saved, nAcquire, nCall, nSave, nLoad, admitted,
          lastCall, prevOk, prevDisk>>

settingsVars == <<USE_I18N, LOCALE_PATHS>>
optionVars == <<locale, skip_translated, set_fuzzy, source_language,
                limit_translations, requests_per_10s>>
prevVars == <<run, disk0, prevOk, prevDisk>>

-----------------------------------------------------------------------------
(* Bounds of the model *)

\* duration, in seconds, of a translation call that is not immediate
MaxCallTime == 5
\* largest amount by which time.sleep() oversleeps
MaxOversleep == 1
\* largest --limit-translations value tried
MaxLimit == 2
\* largest --requests-per-10s value tried
MaxRps == 2
\* number of acquire calls made when the rate limiter is driven on its own
MaxCalls == 6
\* largest clock advance between two acquire calls of the stand-alone limiter
MaxTick == 6

(* Program constants *)

\* the window of wait_for_rate_limit, in seconds
Window == 10

\* An optional integer (--limit-translations): None, or the one-element
\* sequence holding the number
None == <<>>
Some(n) == <<n>>
Value(opt) == opt[1]

-----------------------------------------------------------------------------
(* Strings as the code inspects them *)

Whitespace == {" ", "\t", "\n"}

RECURSIVE LStrip(_)
LStrip(s) ==
    IF s # <<>> /\ Head(s) \in Whitespace THEN LStrip(Tail(s)) ELSE s

RECURSIVE RStrip(_)
RStrip(s) ==
    IF s # <<>> /\ s[Len(s)] \in Whitespace
    THEN RStrip(SubSeq(s, 1, Len(s) - 1))
    ELSE s

\* the msgid tested as it is, without strip()
Strip_Missing(s) == s

\* str.strip()
Strip(s) == RStrip(LStrip(s))

\* str.endswith(suffix)
EndsWith(s, suffix) ==
    /\ Len(s) >= Len(suffix)
    /\ SubSeq(s, Len(s) - Len(suffix) + 1, Len(s)) = suffix

DotPo == <<".", "p", "o">>

\* the locale taken from the directory of the file itself: basename(root)
TargetLanguage_Basename(root) ==
    IF Len(root) >= 1 THEN root[Len(root)] ELSE ""

\* os.path.basename(os.path.dirname(root)), root given as its components
TargetLanguage(root) ==
    IF Len(root) >= 2 THEN root[Len(root) - 1] ELSE ""

Range(s) == {s[i] : i \in 1..Len(s)}

-----------------------------------------------------------------------------
(* polib entries *)

\* POEntry.fuzzy
Fuzzy(entry) == "fuzzy" \in Range(entry.flags)

\* POEntry.translated(), for entries without plural forms
Translated(entry) ==
    /\ ~entry.obsolete
    /\ ~Fuzzy(entry)
    /\ entry.msgstr # ""

\* --untranslated taken to leave every entry with a translation alone,
\* fuzzy or not
SkipTranslated_IgnoresFuzzy(entry) == skip_translated /\ entry.msgstr # ""

\* --untranslated not honoured
SkipTranslated_Off(entry) == FALSE

\* the two `continue` tests of translate_file
SkipTranslated(entry) == skip_translated /\ Translated(entry)

SkipEmpty(entry) == Strip(entry.msgid) = <<>>

\* `self.limit_translations and self.translated_count >= self.limit_translations`
LimitReached ==
    /\ limit_translations # None
    /\ Value(limit_translations) # 0
    /\ translated_count >= Value(limit_translations)

\* the allow-list test inverted (`in` for `not in`)
LocaleSkipped_Inverted(target) == locale # <<>> /\ target \in Range(locale)

\* `self.locale and target_language not in self.locale`
LocaleSkipped(target) == locale # <<>> /\ target \notin Range(locale)

-----------------------------------------------------------------------------
(* wait_for_rate_limit *)

Prune(times, t) == SelectSeq(times, LAMBDA x : t - x < Window)

\* wait_for_rate_limit with the admission test off by one (`>` for `>=`)
WaitForRateLimit_OffByOne(times, t, maxRequests, over) ==
    LET kept == Prune(times, t) IN
    IF Len(kept) > maxRequests
    THEN IF kept = <<>>
         THEN [err |-> TRUE, times |-> kept, now |-> t, slept |-> FALSE]
         ELSE LET t2 == t + (Window - (t - kept[1])) + over IN
              [err |-> FALSE, times |-> Append(Prune(kept, t2), t2),
               now |-> t2, slept |-> TRUE]
    ELSE [err |-> FALSE, times |-> Append(kept, t), now |-> t,
          slept |-> FALSE]

\* wait_for_rate_limit that admits at once when nothing is recorded
WaitForRateLimit_GuardEmpty(times, t, maxRequests, over) ==
    LET kept == Prune(times, t) IN
    IF Len(kept) >= maxRequests /\ kept # <<>>
    THEN LET sleep_time == Window - (t - kept[1]) IN
         IF sleep_time > 0
         THEN LET t2 == t + sleep_time + over IN
              [err |-> FALSE, times |-> Append(Prune(kept, t2), t2),
               now |-> t2, slept |-> TRUE]
         ELSE [err |-> FALSE, times |-> Append(kept, t),
               now |-> t, slept |-> FALSE]
    ELSE [err |-> FALSE, times |-> Append(kept, t), now |-> t,
          slept |-> FALSE]

\* The result of wait_for_rate_limit called at clock time t when time.sleep
\* oversleeps by `over`: err is the IndexError of request_times[0] on an
\* empty list.
WaitForRateLimit(times, t, maxRequests, over) ==
    LET kept == Prune(times, t) IN
    IF Len(kept) >= maxRequests
    THEN IF kept = <<>>
         THEN [err |-> TRUE, times |-> kept, now |-> t, slept |-> FALSE]
         ELSE LET sleep_time == Window - (t - kept[1]) IN
              IF sleep_time > 0
              THEN LET t2 == t + sleep_time + over IN
                   [err |-> FALSE, times |-> Append(Prune(kept, t2), t2),
                    now |-> t2, slept |-> TRUE]
              ELSE [err |-> FALSE, times |-> Append(kept, t),
                    now |-> t, slept |-> FALSE]
    ELSE [err |-> FALSE, times |-> Append(kept, t), now |-> t,
          slept |-> FALSE]

-----------------------------------------------------------------------------
(* The catalog tree: what os.walk finds under each entry of LOCALE_PATHS *)

\* A file found by os.walk: the directory it is in (as path components), its
\* name (as characters) and the key of its content in `disk`.
PoFile(root, name, key) == [root |-> root, name |-> name, key |-> key]

Dir1 ==
    << PoFile(<<"srv", "locale", "fr", "LC_MESSAGES">>, <<"a", ".", "p", "o">>, "fr1"),
       PoFile(<<"srv", "locale", "fr", "LC_MESSAGES">>, <<"a", ".", "p", "o", "t">>, "pot"),
       PoFile(<<"srv", "locale", "de", "LC_MESSAGES">>, <<"a", ".", "p", "o">>, "de1") >>

Dir2 ==
    << PoFile(<<"opt", "locale", "fr", "LC_MESSAGES">>, <<"b", ".", "p", "o">>, "fr2") >>

Keys == {"fr1", "pot", "de1", "fr2"}

Entry(msgid, msgstr, flags, obsolete) ==
    [msgid |-> msgid, msgstr |-> msgstr, flags |-> flags, obsolete |-> obsolete]

Untranslated == Entry(<<"H", "i">>, "", <<>>, FALSE)
Done == Entry(<<"O", "k">>, "old", <<>>, FALSE)
FuzzyOld == Entry(<<"F">>, "old", <<"fuzzy">>, FALSE)
Obsolete == Entry(<<"X">>, "old", <<>>, TRUE)
Blank == Entry(<<" ", "\t">>, "", <<>>, FALSE)
Empty == Entry(<<>>, "", <<>>, FALSE)
Padded == Entry(<<" ", "B", " ">>, "", <<>>, FALSE)

\* contents tried for the first catalog; the other catalogs are fixed
Fr1Choices ==
    { <<Untranslated, Done>>, <<Done, Untranslated>>, <<Blank, FuzzyOld>>,
      <<FuzzyOld, Blank>>, <<Obsolete, Empty>>, <<>> }

DiskWith(fr1) ==
    [k \in Keys |->
        CASE k = "fr1" -> fr1
          [] k = "pot" -> <<Untranslated>>
          [] k = "de1" -> <<Padded>>
          [] k = "fr2" -> <<Untranslated>>]

\* texts the translation capability returns
Texts == {"T", ""}

-----------------------------------------------------------------------------
(* Initial states: a freshly constructed Command, before handle() *)

NoCall ==
    [args |-> [text |-> <<>>, source_language |-> "", target_language |-> ""],
     raised |-> FALSE, returned |-> ""]

InitRun ==
    /\ translated_count = 0
    /\ request_times = <<>>
    /\ now = 0
    /\ dirIdx = 1
    /\ fileIdx = 1
    /\ entryIdx = 1
    /\ po = <<>>
    /\ run = 1
    /\ disk0 = disk
    /\ acquired = {}
    /\ called = {}
    /\ succeeded = {}
    /\ failed = {}
    /\ saveFailed = {}
    /\ loaded = {}
    /\ saved = {}
    /\ nAcquire = 0
    /\ nCall = 0
    /\ nSave = 0
    /\ nLoad = 0
    /\ admitted = <<>>
    /\ lastCall = NoCall
    /\ prevOk = {}
    /\ prevDisk = disk

Init ==
    /\ USE_I18N \in BOOLEAN
    /\ LOCALE_PATHS \in {<<>>, <<Dir1, Dir2>>}
    /\ locale \in {<<>>, <<"fr">>}
    /\ skip_translated \in BOOLEAN
    /\ set_fuzzy \in BOOLEAN
    /\ source_language \in {"en"}
    /\ limit_translations \in {None} \cup {Some(n) : n \in 0..MaxLimit}
    /\ requests_per_10s \in -1..MaxRps
    /\ disk \in {DiskWith(c) : c \in Fr1Choices}
    /\ pc = "start"
    /\ InitRun

-----------------------------------------------------------------------------
(* handle *)

\* the file the walk is at, and the entry translate_file is at
CurDir == LOCALE_PATHS[dirIdx]
CurFile == CurDir[fileIdx]
CurKey == CurFile.key
CurEntry == po[entryIdx]
CurId == <<CurKey, entryIdx>>

histVars == <<acquired, called, succeeded, failed, saveFailed, loaded, saved,
              nAcquire, nCall, nSave, nLoad, admitted, lastCall>>

\* lines 90-93: set_options, then the two assertions fail
HandleAssert ==
    /\ pc = "start"
    /\ ~USE_I18N \/ LOCALE_PATHS = <<>>
    /\ translated_count' = 0
    /\ request_times' = <<>>
    /\ pc' = "error"
    /\ UNCHANGED <<settingsVars, optionVars, now, disk, dirIdx, fileIdx,
                   entryIdx, po, prevVars, histVars>>

\* handle without the USE_I18N assertion
HandleStart_NoI18nCheck ==
    /\ pc = "start"
    /\ LOCALE_PATHS # <<>>
    /\ translated_count' = 0
    /\ request_times' = <<>>
    /\ pc' = "dirs"
    /\ dirIdx' = 1
    /\ UNCHANGED <<settingsVars, optionVars, now, disk, fileIdx,
                   entryIdx, po, prevVars, histVars>>

\* lines 90-97: set_options, the assertions pass
HandleStart ==
    /\ pc = "start"
    /\ USE_I18N /\ LOCALE_PATHS # <<>>
    /\ translated_count' = 0
    /\ request_times' = <<>>
    /\ pc' = "dirs"
    /\ dirIdx' = 1
    /\ UNCHANGED <<settingsVars, optionVars, now, disk, fileIdx,
                   entryIdx, po, prevVars, histVars>>

\* line 99: LOCALE_PATHS exhausted, handle returns
DirsExhausted ==
    /\ pc = "dirs"
    /\ dirIdx > Len(LOCALE_PATHS)
    /\ pc' = "done"
    /\ UNCHANGED <<settingsVars, optionVars, translated_count, request_times,
                   now, disk, dirIdx, fileIdx, entryIdx, po, prevVars, histVars>>

\* lines 101-103: the limit check of the outer loop
DirLimitReached ==
    /\ pc = "dirs"
    /\ dirIdx <= Len(LOCALE_PATHS)
    /\ LimitReached
    /\ pc' = "done"
    /\ UNCHANGED <<settingsVars, optionVars, translated_count, request_times,
                   now, disk, dirIdx, fileIdx, entryIdx, po, prevVars, histVars>>

\* line 106: start walking the directory
DirEnter ==
    /\ pc = "dirs"
    /\ dirIdx <= Len(LOCALE_PATHS)
    /\ ~LimitReached
    /\ pc' = "files"
    /\ fileIdx' = 1
    /\ UNCHANGED <<settingsVars, optionVars, translated_count, request_times,
                   now, disk, dirIdx, entryIdx, po, prevVars, histVars>>

\* lines 106-107: the walk of this directory is over
FilesExhausted ==
    /\ pc = "files"
    /\ fileIdx > Len(CurDir)
    /\ pc' = "dirs"
    /\ dirIdx' = dirIdx + 1
    /\ UNCHANGED <<settingsVars, optionVars, translated_count, request_times,
                   now, disk, fileIdx, entryIdx, po, prevVars, histVars>>

\* lines 109-111: the limit check of the inner loop
FileLimitReached ==
    /\ pc = "files"
    /\ fileIdx <= Len(CurDir)
    /\ LimitReached
    /\ pc' = "done"
    /\ UNCHANGED <<settingsVars, optionVars, translated_count, request_times,
                   now, disk, dirIdx, fileIdx, entryIdx, po, prevVars, histVars>>

\* lines 113-115: not a .po file
FileNotPo ==
    /\ pc = "files"
    /\ fileIdx <= Len(CurDir)
    /\ ~LimitReached
    /\ ~EndsWith(CurFile.name, DotPo)
    /\ fileIdx' = fileIdx + 1
    /\ UNCHANGED <<settingsVars, optionVars, translated_count, request_times,
                   now, disk, pc, dirIdx, entryIdx, po, prevVars, histVars>>

\* lines 118-122: the locale is not in the allow-list
FileLocaleSkipped ==
    /\ pc = "files"
    /\ fileIdx <= Len(CurDir)
    /\ ~LimitReached
    /\ EndsWith(CurFile.name, DotPo)
    /\ LocaleSkipped(TargetLanguage(CurFile.root))
    /\ fileIdx' = fileIdx + 1
    /\ UNCHANGED <<settingsVars, optionVars, translated_count, request_times,
                   now, disk, pc, dirIdx, entryIdx, po, prevVars, histVars>>

\* lines 125, 138-141: translate_file is called and loads the catalog
FileLoad ==
    /\ pc = "files"
    /\ fileIdx <= Len(CurDir)
    /\ ~LimitReached
    /\ EndsWith(CurFile.name, DotPo)
    /\ ~LocaleSkipped(TargetLanguage(CurFile.root))
    /\ po' = disk[CurKey]
    /\ entryIdx' = 1
    /\ pc' = "entries"
    /\ loaded' = loaded \cup {CurKey}
    /\ nLoad' = nLoad + 1
    /\ UNCHANGED <<settingsVars, optionVars, translated_count, request_times,
                   now, disk, dirIdx, fileIdx, prevVars, acquired, called,
                   succeeded, failed, saveFailed, saved, nAcquire, nCall,
                   nSave, admitted, lastCall>>

-----------------------------------------------------------------------------
(* translate_file *)

\* line 143: the catalog is exhausted, translate_file returns True (line 177)
EntriesExhausted ==
    /\ pc = "entries"
    /\ entryIdx > Len(po)
    /\ pc' = "files"
    /\ fileIdx' = fileIdx + 1
    /\ po' = <<>>
    /\ entryIdx' = 1
    /\ UNCHANGED <<settingsVars, optionVars, translated_count, request_times,
                   now, disk, dirIdx, prevVars, histVars>>

\* lines 145-147 and 125-127: translate_file returns False, handle returns
EntryLimitReached ==
    /\ pc = "entries"
    /\ entryIdx <= Len(po)
    /\ LimitReached
    /\ pc' = "done"
    /\ UNCHANGED <<settingsVars, optionVars, translated_count, request_times,
                   now, disk, dirIdx, fileIdx, entryIdx, po, prevVars,
                   histVars>>

\* lines 150-151
EntrySkipTranslated ==
    /\ pc = "entries"
    /\ entryIdx <= Len(po)
    /\ ~LimitReached
    /\ SkipTranslated(CurEntry)
    /\ entryIdx' = entryIdx + 1
    /\ UNCHANGED <<settingsVars, optionVars, translated_count, request_times,
                   now, disk, pc, dirIdx, fileIdx, po, prevVars, histVars>>

\* lines 154-155
EntrySkipEmpty ==
    /\ pc = "entries"
    /\ entryIdx <= Len(po)
    /\ ~LimitReached
    /\ ~SkipTranslated(CurEntry)
    /\ SkipEmpty(CurEntry)
    /\ entryIdx' = entryIdx + 1
    /\ UNCHANGED <<settingsVars, optionVars, translated_count, request_times,
                   now, disk, pc, dirIdx, fileIdx, po, prevVars, histVars>>

\* the entry is sent for translation
Selected ==
    /\ pc = "entries"
    /\ entryIdx <= Len(po)
    /\ ~LimitReached
    /\ ~SkipTranslated(CurEntry)
    /\ ~SkipEmpty(CurEntry)

\* the translation is called without waiting for the rate limit
Acquire_NoLimiter ==
    /\ Selected
    /\ requests_per_10s >= 1
    /\ request_times' = Append(request_times, now)
    /\ admitted' = Append(admitted, now)
    /\ pc' = "translate"
    /\ acquired' = acquired \cup {CurId}
    /\ nAcquire' = nAcquire + 1
    /\ UNCHANGED <<settingsVars, optionVars, translated_count, now, disk, dirIdx,
                   fileIdx, entryIdx, po, prevVars, called, succeeded, failed,
                   saveFailed, loaded, saved, nCall, nSave, nLoad, lastCall>>

\* line 158: wait_for_rate_limit returns
Acquire ==
    /\ Selected
    /\ \E over \in 0..MaxOversleep :
         LET r == WaitForRateLimit(request_times, now, requests_per_10s, over) IN
         /\ ~r.err
         /\ request_times' = r.times
         /\ now' = r.now
         /\ admitted' = Append(admitted, r.now)
    /\ pc' = "translate"
    /\ acquired' = acquired \cup {CurId}
    /\ nAcquire' = nAcquire + 1
    /\ UNCHANGED <<settingsVars, optionVars, translated_count, disk, dirIdx,
                   fileIdx, entryIdx, po, prevVars, called, succeeded, failed,
                   saveFailed, loaded, saved, nCall, nSave, nLoad, lastCall>>

\* line 158: wait_for_rate_limit raises IndexError at line 78; it is called
\* outside the try block, so the error leaves translate_file and handle
AcquireError ==
    /\ Selected
    /\ WaitForRateLimit(request_times, now, requests_per_10s, 0).err
    /\ request_times' = Prune(request_times, now)
    /\ pc' = "error"
    /\ acquired' = acquired \cup {CurId}
    /\ nAcquire' = nAcquire + 1
    /\ UNCHANGED <<settingsVars, optionVars, translated_count, now, disk,
                   dirIdx, fileIdx, entryIdx, po, prevVars, called, succeeded,
                   failed, saveFailed, loaded, saved, nCall, nSave, nLoad,
                   admitted, lastCall>>

\* the arguments of translate_string at lines 162-163
CallArgs ==
    [text |-> CurEntry.msgid, source_language |-> source_language,
     target_language |-> TargetLanguage(CurFile.root)]

\* the call as observed: its arguments and how it ended
CallRaised == [args |-> CallArgs, raised |-> TRUE, returned |-> ""]
CallReturned(text) == [args |-> CallArgs, raised |-> FALSE, returned |-> text]

\* the translation written over the source text as well
TranslatedEntry_OverMsgid(entry, text) ==
    [entry EXCEPT !.msgid = <<"T">>,
                  !.msgstr = text,
                  !.flags = IF set_fuzzy THEN Append(@, "fuzzy") ELSE @]

\* --set-fuzzy not honoured
TranslatedEntry_NoFuzzy(entry, text) == [entry EXCEPT !.msgstr = text]

\* lines 162-165: the entry after a translation that returned `text`
TranslatedEntry(entry, text) ==
    [entry EXCEPT !.msgstr = text,
                  !.flags = IF set_fuzzy THEN Append(@, "fuzzy") ELSE @]

\* a failed call that is not caught and ends the run
TranslateFail_Raises ==
    /\ pc = "translate"
    /\ \E d \in {0, MaxCallTime} : now' = now + d
    /\ called' = called \cup {CurId}
    /\ nCall' = nCall + 1
    /\ lastCall' = CallRaised
    /\ failed' = failed \cup {CurId}
    /\ pc' = "error"
    /\ UNCHANGED <<settingsVars, optionVars, translated_count, request_times,
                   disk, dirIdx, fileIdx, entryIdx, po, prevVars, acquired,
                   succeeded, saveFailed, loaded, saved, nAcquire, nSave,
                   nLoad, admitted>>

\* a failed call counted as a translation
TranslateFail_Counted ==
    /\ pc = "translate"
    /\ \E d \in {0, MaxCallTime} : now' = now + d
    /\ called' = called \cup {CurId}
    /\ nCall' = nCall + 1
    /\ lastCall' = CallRaised
    /\ failed' = failed \cup {CurId}
    /\ translated_count' = translated_count + 1
    /\ entryIdx' = entryIdx + 1
    /\ pc' = "entries"
    /\ UNCHANGED <<settingsVars, optionVars, request_times,
                   disk, dirIdx, fileIdx, po, prevVars, acquired, succeeded,
                   saveFailed, loaded, saved, nAcquire, nSave, nLoad, admitted>>

\* a failed call that ends translate_file (`break` for `continue`)
TranslateFail_Break ==
    /\ pc = "translate"
    /\ \E d \in {0, MaxCallTime} : now' = now + d
    /\ called' = called \cup {CurId}
    /\ nCall' = nCall + 1
    /\ lastCall' = CallRaised
    /\ failed' = failed \cup {CurId}
    /\ entryIdx' = Len(po) + 1
    /\ pc' = "entries"
    /\ UNCHANGED <<settingsVars, optionVars, translated_count, request_times,
                   disk, dirIdx, fileIdx, po, prevVars, acquired, succeeded,
                   saveFailed, loaded, saved, nAcquire, nSave, nLoad, admitted>>

\* lines 161-163, 173-175: get_translator or translate_string raises
TranslateFail ==
    /\ pc = "translate"
    /\ \E d \in {0, MaxCallTime} : now' = now + d
    /\ called' = called \cup {CurId}
    /\ nCall' = nCall + 1
    /\ lastCall' = CallRaised
    /\ failed' = failed \cup {CurId}
    /\ entryIdx' = entryIdx + 1
    /\ pc' = "entries"
    /\ UNCHANGED <<settingsVars, optionVars, translated_count, request_times,
                   disk, dirIdx, fileIdx, po, prevVars, acquired, succeeded,
                   saveFailed, loaded, saved, nAcquire, nSave, nLoad, admitted>>

\* lines 161-171: the translation returns and the catalog is saved
TranslateOk ==
    /\ pc = "translate"
    /\ \E d \in {0, MaxCallTime} : now' = now + d
    /\ \E text \in Texts :
         /\ po' = [po EXCEPT ![entryIdx] = TranslatedEntry(@, text)]
         /\ disk' = [disk EXCEPT ![CurKey] = po']
         /\ lastCall' = CallReturned(text)
    /\ translated_count' = translated_count + 1
    /\ called' = called \cup {CurId}
    /\ nCall' = nCall + 1
    /\ succeeded' = succeeded \cup {CurId}
    /\ saved' = saved \cup {CurKey}
    /\ nSave' = nSave + 1
    /\ entryIdx' = entryIdx + 1
    /\ pc' = "entries"
    /\ UNCHANGED <<settingsVars, optionVars, request_times, dirIdx, fileIdx,
                   prevVars, acquired, failed, saveFailed, loaded, nAcquire,
                   nLoad, admitted>>

\* lines 161-169, 173-175: the translation returns, po.save() raises
TranslateSaveFail ==
    /\ pc = "translate"
    /\ \E d \in {0, MaxCallTime} : now' = now + d
    /\ \E text \in Texts :
         /\ po' = [po EXCEPT ![entryIdx] = TranslatedEntry(@, text)]
         /\ lastCall' = CallReturned(text)
    /\ translated_count' = translated_count + 1
    /\ called' = called \cup {CurId}
    /\ nCall' = nCall + 1
    /\ succeeded' = succeeded \cup {CurId}
    /\ saveFailed' = saveFailed \cup {CurId}
    /\ nSave' = nSave + 1
    /\ entryIdx' = entryIdx + 1
    /\ pc' = "entries"
    /\ UNCHANGED <<settingsVars, optionVars, request_times, disk, dirIdx,
                   fileIdx, prevVars, acquired, failed, loaded, saved,
                   nAcquire, nLoad, admitted>>

-----------------------------------------------------------------------------
(* One invocation of the command *)

Next ==
    \/ HandleAssert
    \/ HandleStart
    \/ DirsExhausted
    \/ DirLimitReached
    \/ DirEnter
    \/ FilesExhausted
    \/ FileLimitReached
    \/ FileNotPo
    \/ FileLocaleSkipped
    \/ FileLoad
    \/ EntriesExhausted
    \/ EntryLimitReached
    \/ EntrySkipTranslated
    \/ EntrySkipEmpty
    \/ Acquire
    \/ AcquireError
    \/ TranslateFail
    \/ TranslateOk
    \/ TranslateSaveFail

Spec == Init /\ [][Next]_vars

-----------------------------------------------------------------------------
(* Two invocations of the command, one after the other, on the same tree *)

\* The command is invoked again once the first invocation has returned.
\* The clock is read relative to the start of the invocation.
Rerun ==
    /\ pc = "done"
    /\ run = 1
    /\ run' = 2
    /\ skip_translated' \in BOOLEAN
    /\ set_fuzzy' \in BOOLEAN
    /\ prevOk' = succeeded
    /\ prevDisk' = disk0
    /\ disk0' = disk
    /\ now' = 0
    /\ pc' = "start"
    /\ dirIdx' = 1
    /\ fileIdx' = 1
    /\ entryIdx' = 1
    /\ po' = <<>>
    /\ acquired' = {}
    /\ called' = {}
    /\ succeeded' = {}
    /\ failed' = {}
    /\ saveFailed' = {}
    /\ loaded' = {}
    /\ saved' = {}
    /\ nAcquire' = 0
    /\ nCall' = 0
    /\ nSave' = 0
    /\ nLoad' = 0
    /\ admitted' = <<>>
    /\ lastCall' = NoCall
    /\ UNCHANGED <<settingsVars, locale, source_language, limit_translations,
                   requests_per_10s, translated_count, request_times, disk>>

InitTwoRuns ==
    /\ USE_I18N \in BOOLEAN
    /\ LOCALE_PATHS = <<Dir2, Dir1>>
    /\ locale = <<"fr">>
    /\ skip_translated \in BOOLEAN
    /\ set_fuzzy \in BOOLEAN
    /\ source_language \in {"en"}
    /\ limit_translations \in {None, Some(1)}
    /\ requests_per_10s \in {0, MaxRps}
    /\ disk \in {DiskWith(<<Untranslated, Done>>), DiskWith(<<FuzzyOld, Blank>>)}
    /\ pc = "start"
    /\ InitRun

NextTwoRuns == Next \/ Rerun

TwoRuns == InitTwoRuns /\ [][NextTwoRuns]_vars

-----------------------------------------------------------------------------
(* One invocation that keeps taking steps until it has returned or raised: *)
(* the interpreter runs the command to its end, every call of             *)
(* time.sleep and of the translator returns                               *)

InitTerminating ==
    /\ Init
    /\ limit_translations \in {None, Some(1)}
    /\ disk \in {DiskWith(<<Done, Untranslated>>), DiskWith(<<Blank, FuzzyOld>>)}

Terminating == InitTerminating /\ [][Next]_vars /\ WF_vars(Next)

-----------------------------------------------------------------------------
(* The rate limiter on its own: wait_for_rate_limit called at arbitrary,   *)
(* non-decreasing clock times                                              *)

InitLimiter ==
    /\ USE_I18N = TRUE
    /\ LOCALE_PATHS = <<>>
    /\ locale = <<>>
    /\ skip_translated = FALSE
    /\ set_fuzzy = FALSE
    /\ source_language = "en"
    /\ limit_translations = None
    /\ requests_per_10s \in -1..MaxRps
    /\ disk = DiskWith(<<>>)
    /\ InitRun
    /\ pc = "limiter"

\* one call of wait_for_rate_limit, d seconds after the previous one returned
LimiterAcquire ==
    /\ pc = "limiter"
    /\ nAcquire < MaxCalls
    /\ \E d \in 0..MaxTick, over \in 0..MaxOversleep :
         LET r == WaitForRateLimit(request_times, now + d, requests_per_10s, over) IN
         /\ ~r.err
         /\ request_times' = r.times
         /\ now' = r.now
         /\ admitted' = Append(admitted, r.now)
    /\ nAcquire' = nAcquire + 1
    /\ UNCHANGED <<settingsVars, optionVars, translated_count, disk, pc, dirIdx,
                   fileIdx, entryIdx, po, prevVars, acquired, called,
                   succeeded, failed, saveFailed, loaded, saved, nCall, nSave,
                   nLoad, lastCall>>

\* the call raises IndexError (line 78)
LimiterAcquireError ==
    /\ pc = "limiter"
    /\ nAcquire < MaxCalls
    /\ \E d \in 0..MaxTick :
         /\ WaitForRateLimit(request_times, now + d, requests_per_10s, 0).err
         /\ request_times' = Prune(request_times, now + d)
         /\ now' = now + d
    /\ pc' = "error"
    /\ nAcquire' = nAcquire + 1
    /\ UNCHANGED <<settingsVars, optionVars, translated_count, disk, dirIdx,
                   fileIdx, entryIdx, po, prevVars, acquired, called,
                   succeeded, failed, saveFailed, loaded, saved, nCall, nSave,
                   nLoad, admitted, lastCall>>

NextLimiter == LimiterAcquire \/ LimiterAcquireError

LimiterSpec == InitLimiter /\ [][NextLimiter]_vars

-----------------------------------------------------------------------------
(* Properties *)

\* number of the first j admitted requests that lie in the window ending at
\* the j-th
InWindow(j) ==
    Cardinality({i \in 1..j : admitted[j] - admitted[i] < Window})

\* C1: with requests_per_10s >= 1, after every call of wait_for_rate_limit at
\* most requests_per_10s recorded timestamps t have now - t < 10, and no
\* trailing 10-second window ever holds more than requests_per_10s of the
\* timestamps recorded so far.
C1_RateWindow ==
    requests_per_10s >= 1 =>
        /\ Cardinality({i \in 1..Len(request_times) :
                            now - request_times[i] < Window}) <= requests_per_10s
        /\ \A j \in 1..Len(admitted) : InWindow(j) <= requests_per_10s

\* a call found the window full, slept until the oldest request left it and
\* was admitted into a window that is full again
C1_Witness ==
    /\ pc = "limiter"
    /\ requests_per_10s = 2
    /\ Len(admitted) >= 3
    /\ admitted[2] - admitted[1] < Window
    /\ admitted[3] - admitted[1] >= Window
    /\ admitted[3] - admitted[2] < Window
    /\ Len(request_times) = 2

-----------------------------------------------------------------------------
(* The entries a run would translate, read off the tree as it was when the *)
(* run began                                                               *)

WalkedFiles ==
    UNION {Range(LOCALE_PATHS[d]) : d \in 1..Len(LOCALE_PATHS)}

\* a catalog of the allow-listed locales
Eligible(f) ==
    /\ EndsWith(f.name, DotPo)
    /\ locale # <<>> => f.root[Len(f.root) - 1] \in Range(locale)

\* an entry with text to translate that is not left alone by --untranslated
Wanted(e) ==
    /\ \E i \in 1..Len(e.msgid) : e.msgid[i] \notin Whitespace
    /\ skip_translated => (e.obsolete \/ "fuzzy" \in Range(e.flags) \/ e.msgstr = "")

WantedIn(key) ==
    {<<key, i>> : i \in {i \in 1..Len(disk0[key]) : Wanted(disk0[key][i])}}

Translatable ==
    UNION {WantedIn(f.key) : f \in {f \in WalkedFiles : Eligible(f)}}

\* C2: with a cap L >= 0 configured and more than L translatable entries in
\* the tree, a run in which no translation call fails performs exactly L
\* translations, makes no further call and saves a catalog L times.
C2_ExactCap ==
    ( /\ pc = "done"
      /\ limit_translations # None
      /\ failed = {}
      /\ Cardinality(Translatable) > Value(limit_translations) )
    => /\ translated_count = Value(limit_translations)
       /\ nCall = Value(limit_translations)
       /\ nSave = Value(limit_translations)

\* C2 for caps L >= 1 only
C2_ExactCapPositive ==
    (limit_translations # None /\ Value(limit_translations) >= 1) => C2_ExactCap

\* C3: the counter never exceeds the cap, and once it has reached the cap no
\* acquire call, translation call, catalog load or catalog save happens.
C3_CapStops ==
    [][ limit_translations # None =>
          /\ translated_count' <= Value(limit_translations)
          /\ translated_count >= Value(limit_translations) =>
               /\ nAcquire' = nAcquire
               /\ nCall' = nCall
               /\ nLoad' = nLoad
               /\ nSave' = nSave ]_vars

\* C3 for caps L >= 1 only
C3_CapStopsPositive ==
    [][ (limit_translations # None /\ Value(limit_translations) >= 1) =>
          /\ translated_count' <= Value(limit_translations)
          /\ translated_count >= Value(limit_translations) =>
               /\ nAcquire' = nAcquire
               /\ nCall' = nCall
               /\ nLoad' = nLoad
               /\ nSave' = nSave ]_vars

\* C4: a failed translation call leaves the catalog in memory and on disk,
\* and the counter, as they were, and saves nothing.
C4_FailureUnchanged ==
    [][ failed' # failed =>
          /\ po' = po
          /\ disk' = disk
          /\ translated_count' = translated_count
          /\ nSave' = nSave
          /\ saved' = saved ]_vars

\* a call has failed under a cap of 1 and the budget is still whole
C4_Witness ==
    /\ failed # {}
    /\ succeeded = {}
    /\ limit_translations = Some(1)
    /\ translated_count = 0
    /\ pc = "entries"

\* C5: a failed translation call never ends the run in an error, and unless
\* the cap stopped the run every translatable entry of every catalog has
\* been attempted when the run returns.
C5_FailureNonFatal ==
    failed # {} =>
        /\ pc # "error"
        /\ (pc = "done" /\ ~LimitReached) => Translatable \subseteq called

\* the first entry of a catalog failed; the second, and the later catalogs,
\* were attempted all the same
C5_Witness ==
    /\ pc = "done"
    /\ <<"fr1", 1>> \in failed
    /\ <<"fr1", 2>> \in called
    /\ <<"de1", 1>> \in called
    /\ <<"fr2", 1>> \in called

\* an entry whose msgid is empty or whitespace only
BlankSource(e) == \A i \in 1..Len(e.msgid) : e.msgid[i] \in Whitespace

\* C6: an entry whose msgid is empty or whitespace only is never passed to
\* the rate limiter or the translator, and its msgstr and flags stay as they
\* were, in memory and on disk.
C6_BlankNeverAttempted ==
    \A key \in Keys : \A i \in 1..Len(disk0[key]) :
        BlankSource(disk0[key][i]) =>
            /\ <<key, i>> \notin acquired \cup called
            /\ disk[key][i] = disk0[key][i]
            /\ (pc \in {"entries", "translate"} /\ CurKey = key) =>
                   po[i] = disk0[key][i]

\* a catalog with a whitespace-only entry was walked: the entry after it was
\* translated and the catalog saved
C6_Witness ==
    /\ pc = "done"
    /\ disk0["fr1"] = <<Blank, FuzzyOld>>
    /\ <<"fr1", 2>> \in succeeded
    /\ "fr1" \in saved

\* the translation calls made on a catalog
CalledIn(key) == {id \in called : id[1] = key}

\* C7: with no cap, a run that returns has made exactly one translation
\* attempt for each entry of a catalog that has source text and is not left
\* alone by --untranslated, and none for the other entries, whatever calls
\* failed.
C7_SelectionCount ==
    (pc = "done" /\ limit_translations = None) =>
        /\ \A f \in WalkedFiles :
               Eligible(f) => CalledIn(f.key) = WantedIn(f.key)
        /\ nCall = Cardinality(Translatable)

\* --untranslated on a catalog of a translated and an untranslated entry:
\* one attempt, which failed
C7_Witness ==
    /\ pc = "done"
    /\ limit_translations = None
    /\ skip_translated
    /\ disk0["fr1"] = <<Done, Untranslated>>
    /\ CalledIn("fr1") = {<<"fr1", 2>>}
    /\ <<"fr1", 2>> \in failed

\* a .po file whose locale directory is not in the allow-list
OutsideLocales(f) ==
    /\ EndsWith(f.name, DotPo)
    /\ locale # <<>>
    /\ f.root[Len(f.root) - 1] \notin Range(locale)

\* C8: with an allow-list, a .po file of another locale is never loaded, none
\* of its entries is attempted and it is never written; the files after it
\* are still processed.
C8_LocaleAllowList ==
    /\ \A f \in WalkedFiles :
           OutsideLocales(f) =>
               /\ f.key \notin loaded \cup saved
               /\ CalledIn(f.key) = {}
               /\ \A id \in acquired : id[1] # f.key
               /\ disk[f.key] = disk0[f.key]
    /\ (pc = "done" /\ ~LimitReached) =>
           \A f \in WalkedFiles : Eligible(f) => f.key \in loaded

\* the German catalog, which has a translatable entry, was passed over and
\* the French catalog found after it was translated
C8_Witness ==
    /\ pc = "done"
    /\ locale = <<"fr">>
    /\ Translated(disk0["de1"][1]) = FALSE
    /\ "de1" \notin loaded
    /\ <<"fr2", 1>> \in succeeded

\* C10: a translation that succeeds appends the fuzzy flag under --set-fuzzy
\* and leaves the flags alone without it, the saved catalog holds the entry
\* as translated, and a failed call leaves the flags alone.
C10_SetFuzzy ==
    [][ /\ succeeded' # succeeded =>
             /\ po'[entryIdx].msgstr \in Texts
             /\ set_fuzzy => "fuzzy" \in Range(po'[entryIdx].flags)
             /\ ~set_fuzzy => po'[entryIdx].flags = po[entryIdx].flags
             /\ saveFailed' = saveFailed =>
                    disk'[CurKey][entryIdx] = po'[entryIdx]
        /\ failed' # failed => po'[entryIdx].flags = po[entryIdx].flags ]_vars

\* under --set-fuzzy an entry without flags was translated and saved with
\* the fuzzy flag
C10_Witness ==
    /\ set_fuzzy
    /\ <<"fr2", 1>> \in succeeded
    /\ disk0["fr2"][1].flags = <<>>
    /\ disk["fr2"][1].flags = <<"fuzzy">>
    /\ disk["fr2"][1].msgstr = "T"

\* the entry as the run found it on disk
Found(id) == disk0[id[1]][id[2]]

\* C9 as stated: in a second run with --untranslated no entry is attempted
\* that the first run translated to a non-empty text and saved, whatever the
\* options of the first run were.
C9_SecondRunSkips ==
    (run = 2 /\ skip_translated) =>
        \A id \in prevOk : Found(id).msgstr # "" => id \notin called

\* C9 amended: in a second run with --untranslated no entry is attempted
\* that the first run translated and left on disk with a non-empty msgstr,
\* without the fuzzy flag and not obsolete.
C9_SecondRunSkipsNonFuzzy ==
    (run = 2 /\ skip_translated) =>
        \A id \in prevOk :
            ( /\ Found(id).msgstr # ""
              /\ "fuzzy" \notin Range(Found(id).flags)
              /\ ~Found(id).obsolete )
            => id \notin acquired \cup called

\* the first run translated an untranslated entry, the second run, with
\* --untranslated, has returned without attempting it while it attempted
\* another entry
C9_Witness ==
    /\ run = 2
    /\ pc = "done"
    /\ skip_translated
    /\ <<"fr2", 1>> \in prevOk
    /\ prevDisk["fr2"][1].msgstr = ""
    /\ Found(<<"fr2", 1>>).msgstr = "T"
    /\ <<"fr2", 1>> \notin called
    /\ called # {}

\* C11: a call of wait_for_rate_limit never ends in an error, whatever
\* requests_per_10s is (values <= 0 included) and whatever timestamps are
\* recorded.
C11_AcquireNeverErrors == pc # "error"

\* the settings do not allow a run
BadSettings == ~USE_I18N \/ LOCALE_PATHS = <<>>

\* C12: with USE_I18N false or LOCALE_PATHS empty the run ends in an error
\* before any directory is walked, any catalog loaded or saved and any
\* acquire or translation call made.
C12_ConfigErrorFatal ==
    BadSettings =>
        /\ pc \in {"start", "error"}
        /\ dirIdx = 1 /\ fileIdx = 1 /\ entryIdx = 1
        /\ nLoad = 0 /\ nAcquire = 0 /\ nCall = 0 /\ nSave = 0
        /\ loaded = {} /\ acquired = {} /\ called = {} /\ saved = {}
        /\ po = <<>>
        /\ disk = disk0

\* i18n is disabled over a tree with translatable entries: the run has ended
\* in the assertion error
C12_Witness ==
    /\ ~USE_I18N
    /\ LOCALE_PATHS = <<Dir1, Dir2>>
    /\ requests_per_10s >= 1
    /\ pc = "error"
    /\ nLoad = 0

\* the locale directory of a catalog at <root>/<locale>/LC_MESSAGES/<file>.po
LocaleDir(f) == f.root[Len(f.root) - 1]

\* C13: a translation call is made with the msgid of the entry, the
\* configured source language and the locale directory of the catalog, and
\* when it returns text s the msgstr of the entry is s in memory and in the
\* catalog as saved.
C13_TranslationResult ==
    [][ /\ nCall' # nCall =>
             /\ lastCall'.args.text = po[entryIdx].msgid
             /\ lastCall'.args.source_language = source_language
             /\ lastCall'.args.target_language = LocaleDir(CurFile)
        /\ succeeded' # succeeded =>
             /\ ~lastCall'.raised
             /\ po'[entryIdx].msgstr = lastCall'.returned
             /\ saveFailed' = saveFailed =>
                    disk'[CurKey][entryIdx].msgstr = lastCall'.returned ]_vars

\* the entry of the German catalog was sent as ("en", "de") and the text
\* that came back is its msgstr on disk
C13_Witness ==
    /\ pc = "entries"
    /\ lastCall.args = [text |-> <<" ", "B", " ">>, source_language |-> "en",
                        target_language |-> "de"]
    /\ lastCall.returned = "T"
    /\ disk0["de1"][1].msgstr = ""
    /\ disk["de1"][1].msgstr = "T"

\* successful translations whose catalog has not been written since
NotOnDisk ==
    {id \in saveFailed :
        ~\E j \in succeeded \ saveFailed : j[1] = id[1] /\ j[2] > id[2]}

\* C14: every successful translation is followed at once by a save of its
\* catalog, a save is made only after a successful translation and only of
\* the catalog of the translated entry, and at any point at most one
\* successful translation is not on disk.
C14_ImmediatePersistence ==
    /\ nSave = Cardinality(succeeded)
    /\ saved \subseteq {id[1] : id \in succeeded}
    /\ saveFailed \subseteq succeeded
    /\ Cardinality(NotOnDisk) <= 1

\* C15: a run changes only msgstr and flags of the entries it selected;
\* msgid and the obsolete mark of every entry, and every entry that was not
\* selected, are on disk and in memory as they were when the run began.
C15_Frame ==
    /\ \A key \in Keys :
         /\ Len(disk[key]) = Len(disk0[key])
         /\ \A i \in 1..Len(disk0[key]) :
              /\ disk[key][i].msgid = disk0[key][i].msgid
              /\ disk[key][i].obsolete = disk0[key][i].obsolete
              /\ <<key, i>> \notin acquired => disk[key][i] = disk0[key][i]
              /\ <<key, i>> \notin Translatable => disk[key][i] = disk0[key][i]
    /\ pc \in {"entries", "translate"} =>
         /\ Len(po) = Len(disk0[CurKey])
         /\ \A i \in 1..Len(po) :
              /\ po[i].msgid = disk0[CurKey][i].msgid
              /\ po[i].obsolete = disk0[CurKey][i].obsolete
              /\ <<CurKey, i>> \notin acquired => po[i] = disk0[CurKey][i]

\* under --untranslated, an allow-list of "fr" and a cap of 1 the second
\* entry of the first catalog was translated; the translated entry before
\* it, the German catalog and the catalog behind the cap are as they were
C15_Witness ==
    /\ pc = "done"
    /\ skip_translated
    /\ locale = <<"fr">>
    /\ limit_translations = Some(1)
    /\ disk0["fr1"] = <<Done, Untranslated>>
    /\ <<"fr1", 2>> \in succeeded \ saveFailed
    /\ disk["fr1"][2].msgstr = "T"
    /\ disk["fr1"][1] = Done
    /\ disk["de1"] = disk0["de1"]
    /\ disk["fr2"] = disk0["fr2"]

\* the settings allow a run and the rate limit admits requests
CanRun == USE_I18N /\ LOCALE_PATHS # <<>> /\ requests_per_10s >= 1

\* C16: with requests_per_10s >= 1 the run never ends in an error and
\* eventually returns, whatever calls succeed or fail, and every call of
\* wait_for_rate_limit returns after a wait of at most the window and the
\* oversleep.
C16_Terminates ==
    /\ [](CanRun => pc # "error")
    /\ (CanRun ~> pc = "done")
    /\ [][ (CanRun /\ nAcquire' # nAcquire) =>
               now' - now <= Window + MaxOversleep ]_vars

\* a run with one request per window has returned after a failed call and
\* a wait for the window
C16_Witness ==
    /\ pc = "done"
    /\ CanRun
    /\ requests_per_10s = 1
    /\ failed # {}
    /\ Len(admitted) >= 2
    /\ admitted[2] - admitted[1] >= Window

\* C17: every translation call follows one call of wait_for_rate_limit made
\* for that attempt, no trailing 10-second window holds more than
\* requests_per_10s calls, and a failed call takes a place in the window
\* but is not counted towards the cap.
C17_DriverRateCeiling ==
    /\ nAcquire = Cardinality(acquired)
    /\ nCall = Cardinality(called)
    /\ called \subseteq acquired
    /\ nCall <= Len(admitted) /\ Len(admitted) <= nCall + 1
    /\ pc = "translate" <=> Len(admitted) = nCall + 1
    /\ \A j \in 1..Len(admitted) : InWindow(j) <= requests_per_10s
    /\ failed \cup succeeded \subseteq called
    /\ failed \cap succeeded = {}
    /\ translated_count = Cardinality(succeeded)

\* with two requests per window the third call had to wait for the window,
\* and one of the calls failed and was not counted
C17_Witness ==
    /\ requests_per_10s = 2
    /\ nCall >= 3
    /\ admitted[2] - admitted[1] < Window
    /\ admitted[3] - admitted[1] >= Window
    /\ failed # {}
    /\ translated_count < nCall

\* C18: with requests_per_10s <= 0 no request is admitted: no timestamp is
\* recorded and no translation call is made.
C18_NeverAdmits ==
    requests_per_10s <= 0 =>
        /\ request_times = <<>>
        /\ admitted = <<>>
        /\ nCall = 0
        /\ called = {}
        /\ pc # "translate"

\* with requests_per_10s = 0 the first entry selected asked for admission
\* and none was given
C18_Witness ==
    /\ requests_per_10s = 0
    /\ nAcquire = 1
    /\ acquired # {}
    /\ pc = "error"
    /\ request_times = <<>>

\* number of times the fuzzy flag is in the flags of an entry
FuzzyCount(entry) ==
    Cardinality({i \in 1..Len(entry.flags) : entry.flags[i] = "fuzzy"})

\* C19: after any number of runs every entry carries the fuzzy flag at most
\* once.
C19_FuzzyOnce ==
    \A key \in Keys : \A i \in 1..Len(disk[key]) : FuzzyCount(disk[key][i]) <= 1

\* C20: between entries translated_count is the number of translations
\* written to disk by a completed save; a translation whose save raised is
\* not counted.
C20_CountMatchesDisk ==
    pc # "translate" =>
        translated_count = Cardinality(succeeded \ saveFailed)

====
